---- MODULE Spec2Model ----
(***************************************************************************)
(* Model of the two traffic generators of scripts/debug:                   *)
(*   - deploy_and_simulate.py  ("timed mode"):  a single loop that forces  *)
(*     a block every 3 s and sends a confirmed ERC20 transfer every 8 s;   *)
(*   - stress-test.py          ("stress mode"): an asyncio coordinator     *)
(*     that dispatches batches of pre-nonced raw transactions.             *)
(* Time is counted in units of the 0.5 s tick sleep (timed mode) and of the *)
(* 0.1 s pause between batches (stress mode).  The RPC node is the         *)
(* environment: every call either returns or raises, after a delay drawn   *)
(* from a small set.  An external cancellation (KeyboardInterrupt) can     *)
(* arrive at every position of either loop.                                *)
(***************************************************************************)
EXTENDS Integers, Sequences, FiniteSets, TLC

VARIABLES
    env,              \* the run: how long it is followed, how the node behaves
    mode,             \* "timed" | "stress": which script is running
    pc,               \* position of the control thread / coordinator
    clock,            \* wall clock, time.time(), in 0.5 s units
    now,              \* local `now` of simulate_transfers
    last_block_time,  \* local of simulate_transfers
    last_tx_time,     \* local of simulate_transfers
    tx_count,         \* local counter of simulate_transfers / of stress main
    intent,           \* sender, receiver, amount of the attempt in progress
    outcome,          \* how the most recent transfer attempt ended
    block_outcome,    \* how the most recent block-forcing attempt ended
    attempts,         \* history: transfer attempts started
    confirmed,        \* history: receipts obtained by wait_for_transaction_receipt
    chain_height,     \* w3.eth.block_number as the node would answer it
    output,           \* what the final report printed
    exit_status,      \* "running" | "exit0" | "exit1" | "unhandled"
    faults,           \* environment: RPC calls that have raised so far
    cancelled,        \* history: a KeyboardInterrupt was delivered
    nonce,            \* stress main: baseline nonce
    tasks,            \* stress main: the current batch, one record per send_tx
    assigned,         \* history: nonces handed to send_tx, in dispatch order
    batches,          \* history: batches whose gather has returned
    acked,            \* history: submissions acknowledged by the node
    failed,           \* history: submissions that raised inside send_tx
    errors_logged,    \* number of "Error: ..." lines printed by send_tx
    reported,         \* the count of the last "Sent N transactions" line
    start_time,       \* stress main: start_time
    tps,              \* the "Current Avg TPS" of the last progress line
    batch_start,      \* history: the instant the current batch began
    batch_time,       \* history: how long the last joined batch took
    busy,             \* history: the sum of the batch times so far
    submitted,        \* history: transfer transactions the node accepted
    dropped,          \* node: transfers not mined, no longer waited for
    mined             \* history: transfer transactions the node has mined

vars == << env, mode, pc, clock, now, last_block_time, last_tx_time, tx_count,
           intent, outcome, block_outcome, attempts, confirmed, chain_height,
           output, exit_status, faults, cancelled, nonce, tasks, assigned, batches, acked,
           failed, errors_logged, reported, start_time, tps, batch_start,
           batch_time, busy, submitted, dropped, mined >>

ledgerVars == << submitted, dropped, mined >>

timedVars == << now, last_block_time, last_tx_time, intent, outcome,
                block_outcome, attempts, confirmed >>

timingVars == << start_time, tps, batch_start, batch_time, busy >>

stressVars == << nonce, tasks, assigned, batches, acked, failed,
                 errors_logged, reported, timingVars >>

(***************************************************************************)
(* Program constants (time in 0.5 s units).                                *)
(***************************************************************************)
TickSleep      == 1            \* time.sleep(0.5): the unit of time
Seconds(n)     == 2 * n        \* n seconds in units of the tick sleep
BlockPeriod    == Seconds(3)   \* now - last_block_time >= 3
TxPeriod       == Seconds(8)   \* now - last_tx_time >= 8
ConfirmTimeout == Seconds(10)  \* wait_for_transaction_receipt(.., timeout=10)
DeployTimeout  == Seconds(30)  \* wait_for_transaction_receipt(.., timeout=30)
AmountMin      == 1      \* random.randint(1, 1000)
AmountMax      == 1000

(***************************************************************************)
(* Bounds of the model.                                                    *)
(***************************************************************************)
MaxClock    == 38        \* the wall clock is followed up to this instant
MaxFaults   == 2         \* RPC calls that raise (or time out) in one run
MaxDelay    == 1         \* longest delay of an RPC call that returns
batch_size  == 3         \* stress main: batch_size (50 in the script)
MaxBatches  == 3         \* batches followed in a stress session
MaxNonce    == 1         \* largest baseline nonce the node answers
PauseTime   == 1         \* asyncio.sleep(0.1): the unit of time, stress mode

\* The delays of an RPC call that returns, in this run.
Delays  == env.delays

\* A call that is awaited alone takes a full round trip to the node.
RoundTrips == 1 .. MaxDelay + 1

\* The environment: an RPC call may raise while the fault budget lasts.
Results(all, good) == { r \in all : r \in good \/ faults < env.faults }
Count(r, good) == faults' = faults + (IF r \in good THEN 0 ELSE 1)
Pool    == { "deployer", "user1", "user2", "user3" }
Amounts == { AmountMin, AmountMax }
NoIntent == [ sender |-> "none", receiver |-> "none", amount |-> 0 ]
NoOutput == [ stopped |-> FALSE, count |-> -1, height |-> -1 ]

TimedLoopPcs == { "tick", "block_send", "block_height", "tx_submit",
                  "tx_wait", "sleep" }
Failed == { "submit_error", "confirm_error", "timeout" }

(***************************************************************************)
(* Initial state: the interpreter is about to run one of the two scripts.  *)
(***************************************************************************)
Init ==
    /\ env = [ horizon |-> MaxClock, faults |-> MaxFaults,
               delays |-> 0 .. MaxDelay ]
    /\ mode \in { "timed", "stress" }
    /\ pc = IF mode = "timed" THEN "connect" ELSE "s_nonce"
    /\ clock = 0
    /\ now = 0
    /\ last_block_time = 0
    /\ last_tx_time = 0
    /\ tx_count = 0
    /\ intent = NoIntent
    /\ outcome = "none"
    /\ block_outcome = "none"
    /\ attempts = 0
    /\ confirmed = 0
    /\ chain_height = 0
    /\ output = NoOutput
    /\ exit_status = "running"
    /\ faults = 0
    /\ cancelled = FALSE
    /\ nonce = 0
    /\ tasks = << >>
    /\ assigned = << >>
    /\ batches = 0
    /\ acked = 0
    /\ failed = 0
    /\ errors_logged = 0
    /\ reported = 0
    /\ start_time = 0
    /\ tps = [ num |-> 0, den |-> 1 ]
    /\ batch_start = 0
    /\ batch_time = 0
    /\ busy = 0
    /\ submitted = 0
    /\ dropped = 0
    /\ mined = 0

(***************************************************************************)
(* Timed mode: deploy_and_simulate.py                                      *)
(***************************************************************************)

\* Lines 19-23: w3.is_connected(); on failure print and sys.exit(1).
Connect ==
    /\ mode = "timed" /\ pc = "connect"
    /\ \E r \in Results({ "ok", "refused" }, { "ok" }) :
         /\ Count(r, { "ok" })
         /\ IF r = "ok" THEN /\ pc' = "deploy"
                             /\ UNCHANGED exit_status
                        ELSE /\ pc' = "exited"
                             /\ exit_status' = "exit1"
    /\ UNCHANGED << env, mode, clock, tx_count, chain_height, output >>
    /\ UNCHANGED timedVars
    /\ UNCHANGED << cancelled, stressVars >>
    /\ UNCHANGED ledgerVars

\* Variant: only a failed send is fatal, a missing receipt is not.
DeployedUnlessSendError(r) == r # "send_error"

\* Lines 78-99: deploy_contract returns the address only when the send and
\* the receipt wait both returned; every exception, TimeExhausted of the
\* wait included, ends in sys.exit(1).
Deployed(r) == r = "ok"

\* deploy_contract: send the deployment and wait up to 30 s for its
\* receipt; any exception prints and calls sys.exit(1).  On success
\* simulate_transfers starts: last_block_time = last_tx_time = time.time().
DeployContract ==
    /\ mode = "timed" /\ pc = "deploy"
    /\ \E r \in Results({ "ok", "send_error", "timeout" }, { "ok" }),
          d \in Delays :
         /\ Count(r, { "ok" })
         /\ IF Deployed(r)
            THEN /\ clock' = clock + d
                 /\ chain_height' = chain_height + 1
                 /\ last_block_time' = clock'
                 /\ last_tx_time' = clock'
                 /\ pc' = "tick"
                 /\ UNCHANGED exit_status
            ELSE /\ clock' = clock + (IF r = "timeout" THEN DeployTimeout
                                                       ELSE d)
                 /\ pc' = "exited"
                 /\ exit_status' = "exit1"
                 /\ UNCHANGED << chain_height, last_block_time, last_tx_time >>
    /\ UNCHANGED << env, mode, tx_count, output, now, intent, outcome,
                    block_outcome, attempts, confirmed >>
    /\ UNCHANGED << cancelled, stressVars >>
    /\ UNCHANGED ledgerVars

\* Line 119: the block obligation is due at the tick whose time is t.
BlockDue(t) == t - last_block_time >= BlockPeriod

\* Variant: the comparison of line 136 made strict.
TransferDueStrict(t) == t - last_tx_time > TxPeriod

\* Line 136: the transfer obligation is due at the tick whose time is t.
TransferDue(t) == t - last_tx_time >= TxPeriod

\* Lines 139-147: sender and receiver drawn from the four accounts, the
\* receiver drawn again while it equals the sender, amount in 1..1000.
SampleIntents ==
    { [ sender |-> s, receiver |-> r, amount |-> a ] :
        s \in Pool, r \in Pool, a \in Amounts }

\* Variant: the loop of lines 143-144 left out.
IntentsUnchecked == SampleIntents

\* Lines 143-144: the loop ends with a receiver other than the sender.
Intents == { i \in SampleIntents : i.sender # i.receiver }

\* Variant: the transfer branch as the alternative of the block branch
\* (elif in place of the second if).
EnterTransferElse(t) ==
    IF t - last_tx_time >= TxPeriod /\ ~(t - last_block_time >= BlockPeriod)
    THEN /\ pc' = "tx_submit"
         /\ intent' \in { i \in SampleIntents : i.sender # i.receiver }
         /\ attempts' = attempts + 1
         /\ outcome' = "pending"
    ELSE /\ pc' = "sleep"
         /\ UNCHANGED << intent, attempts, outcome >>

\* Variant: a retry waits again for the transaction of the failed attempt
\* in place of submitting a new one.
EnterTransferResume(t) ==
    IF t - last_tx_time >= TxPeriod
    THEN IF dropped > 0
         THEN /\ pc' = "tx_wait"
              /\ outcome' = "pending"
              /\ UNCHANGED << intent, attempts >>
         ELSE /\ pc' = "tx_submit"
              /\ intent' \in { i \in SampleIntents : i.sender # i.receiver }
              /\ attempts' = attempts + 1
              /\ outcome' = "pending"
    ELSE /\ pc' = "sleep"
         /\ UNCHANGED << intent, attempts, outcome >>

\* Lines 136-147: the position after the block branch of the tick whose
\* time is t: the transfer branch with a sampled intent, or the tick sleep.
EnterTransfer(t) ==
    IF TransferDue(t)
    THEN /\ pc' = "tx_submit"
         /\ intent' \in Intents
         /\ attempts' = attempts + 1
         /\ outcome' = "pending"
    ELSE /\ pc' = "sleep"
         /\ UNCHANGED << intent, attempts, outcome >>

\* Lines 115-119: top of the loop, now = time.time().
Tick ==
    /\ mode = "timed" /\ pc = "tick"
    /\ now' = clock
    /\ IF BlockDue(clock)
       THEN /\ pc' = "block_send"
            /\ block_outcome' = "pending"
            /\ UNCHANGED << intent, attempts, outcome >>
       ELSE /\ EnterTransfer(clock)
            /\ UNCHANGED block_outcome
    /\ UNCHANGED << env, mode, clock, last_block_time, last_tx_time, tx_count,
                    confirmed, chain_height, output, exit_status, faults >>
    /\ UNCHANGED << cancelled, stressVars >>
    /\ UNCHANGED ledgerVars

\* Lines 120-128 and 132-133: the block-forcing send_transaction.
BlockSend ==
    /\ mode = "timed" /\ pc = "block_send"
    /\ clock < env.horizon
    /\ \E r \in Results({ "ok", "error" }, { "ok" }), d \in Delays :
         /\ Count(r, { "ok" })
         /\ clock' = clock + d
         /\ IF r = "ok"
            THEN /\ pc' = "block_height"
                 /\ chain_height' = chain_height + 1
                 /\ UNCHANGED << block_outcome, intent, attempts, outcome >>
            ELSE /\ block_outcome' = "failed"
                 /\ EnterTransfer(now)
                 /\ UNCHANGED chain_height
    /\ UNCHANGED << env, mode, now, last_block_time, last_tx_time, tx_count,
                    confirmed, output, exit_status >>
    /\ UNCHANGED << cancelled, stressVars >>
    /\ UNCHANGED ledgerVars

\* Variant: the assignment of line 131 moved behind the try statement.
BlockTimeAlways(r) == now

\* Lines 129-133: last_block_time after the height query returned r: the
\* assignment of line 131 is inside the try block, behind the query.
BlockTimeAfter(r) == IF r = "ok" THEN now ELSE last_block_time

\* Lines 129-133: block_num = w3.eth.block_number, the progress line and
\* last_block_time = now; an exception of the query skips the assignment.
BlockHeight ==
    /\ mode = "timed" /\ pc = "block_height"
    /\ \E r \in Results({ "ok", "error" }, { "ok" }) :
         /\ Count(r, { "ok" })
         /\ block_outcome' = IF r = "ok" THEN "mined" ELSE "failed"
         /\ last_block_time' = BlockTimeAfter(r)
    /\ EnterTransfer(now)
    /\ UNCHANGED << env, mode, clock, now, last_tx_time, tx_count, confirmed,
                    chain_height, output, exit_status >>
    /\ UNCHANGED << cancelled, stressVars >>
    /\ UNCHANGED ledgerVars

\* Lines 150-154 and 174-175: contract.functions.transfer(...).transact().
TxSubmit ==
    /\ mode = "timed" /\ pc = "tx_submit"
    /\ clock < env.horizon
    /\ \E r \in Results({ "ok", "error" }, { "ok" }), d \in Delays :
         /\ Count(r, { "ok" })
         /\ clock' = clock + d
         /\ IF r = "ok"
            THEN /\ pc' = "tx_wait"
                 /\ submitted' = submitted + 1
                 /\ UNCHANGED << outcome, intent >>
            ELSE /\ pc' = "sleep"
                 /\ outcome' = "submit_error"
                 /\ intent' = NoIntent
                 /\ UNCHANGED submitted
    /\ UNCHANGED << env, mode, now, last_block_time, last_tx_time, tx_count,
                    block_outcome, attempts, confirmed, chain_height, output,
                    exit_status, dropped, mined >>
    /\ UNCHANGED << cancelled, stressVars >>

\* Lines 158-168: a receipt was returned, with logs or without.
Receipts == { "receipt", "receipt_no_logs" }

\* Variant: a failed attempt puts the due-time one period back.
TxTimeRewind(r) == IF r \in { "receipt", "receipt_no_logs" }
                   THEN now ELSE last_tx_time - TxPeriod

\* Variant: line 170 moved behind the inner try statement.
TxTimeAlways(r) == now

\* Lines 158-173: last_tx_time after the confirmation wait ended with r:
\* line 170 is reached only behind a receipt.
TxTimeAfter(r) == IF r \in Receipts THEN now ELSE last_tx_time

\* Variant: line 159 moved in front of the confirmation wait.
TxCountAlways(r) == tx_count + 1

\* Variant: only a receipt that carries logs is counted.
TxCountWithLogs(r) == IF r = "receipt" THEN tx_count + 1 ELSE tx_count

\* Lines 158-159: tx_count after the confirmation wait ended with r.
TxCountAfter(r) == IF r \in Receipts THEN tx_count + 1 ELSE tx_count

\* Variant: a wait that polls once and, with no receipt there yet, lets the
\* loop go on with the transfer still pending.
TxWaitPolling ==
    /\ mode = "timed" /\ pc = "tx_wait"
    /\ clock < env.horizon
    /\ pc' = "sleep"
    /\ UNCHANGED << env, mode, clock, tx_count, chain_height, output,
                    exit_status, faults >>
    /\ UNCHANGED timedVars
    /\ UNCHANGED ledgerVars
    /\ UNCHANGED << cancelled, stressVars >>

\* Lines 157-173: wait_for_transaction_receipt(tx_hash, timeout=10).
\* A receipt counts the transfer and sets last_tx_time = now, with or
\* without logs; an exception (error or TimeExhausted) only prints.
TxWait ==
    /\ mode = "timed" /\ pc = "tx_wait"
    /\ clock < env.horizon
    /\ \E r \in Results(Receipts \cup { "error", "timeout" }, Receipts),
          d \in Delays :
         /\ Count(r, Receipts)
         /\ clock' = clock + (IF r = "timeout" THEN ConfirmTimeout ELSE d)
         /\ tx_count' = TxCountAfter(r)
         /\ last_tx_time' = TxTimeAfter(r)
         /\ confirmed' = confirmed + (IF r \in Receipts THEN 1 ELSE 0)
         /\ chain_height' = chain_height + (IF r \in Receipts THEN 1 ELSE 0)
         /\ mined' = mined + (IF r \in Receipts THEN 1 ELSE 0)
         /\ dropped' = dropped + (IF r \in Receipts THEN 0 ELSE 1)
         /\ outcome' = CASE r = "receipt"         -> "confirmed"
                         [] r = "receipt_no_logs" -> "confirmed_no_logs"
                         [] r = "error"           -> "confirm_error"
                         [] r = "timeout"         -> "timeout"
    /\ pc' = "sleep"
    /\ intent' = NoIntent
    /\ UNCHANGED << env, mode, now, last_block_time, block_outcome, attempts,
                    output, exit_status, submitted >>
    /\ UNCHANGED << cancelled, stressVars >>

\* Lines 171-177: how many of the transfers whose wait ended in the except
\* branch the node can mine while the loop sleeps.  The loop keeps no
\* reference to them: tx_hash is overwritten by the next attempt.
LateMined == 0 .. dropped

\* Line 177: time.sleep(0.5).  No variable of the loop changes; the node
\* goes on meanwhile.
Sleep ==
    /\ mode = "timed" /\ pc = "sleep"
    /\ clock < env.horizon
    /\ clock' = clock + TickSleep
    /\ pc' = "tick"
    /\ \E k \in LateMined :
         /\ dropped' = dropped - k
         /\ mined' = mined + k
         /\ chain_height' = chain_height + k
    /\ UNCHANGED << env, mode, tx_count, output, exit_status, faults,
                    submitted >>
    /\ UNCHANGED timedVars
    /\ UNCHANGED << cancelled, stressVars >>

\* Lines 179-181: KeyboardInterrupt raised anywhere inside the loop (the
\* inner handlers catch Exception only); the stop notice and the transfer
\* count are printed.
TimedCancel ==
    /\ mode = "timed" /\ pc \in TimedLoopPcs
    /\ pc' = "final_height"
    /\ output' = [ stopped |-> TRUE, count |-> tx_count, height |-> -1 ]
    /\ cancelled' = TRUE
    /\ UNCHANGED << env, mode, clock, tx_count, chain_height, exit_status,
                    faults >>
    /\ UNCHANGED timedVars
    /\ UNCHANGED stressVars
    /\ UNCHANGED ledgerVars

\* Line 182: the f-string evaluates w3.eth.block_number inside the
\* KeyboardInterrupt handler; an exception of the query is caught nowhere.
FinalHeight ==
    /\ mode = "timed" /\ pc = "final_height"
    /\ \E r \in Results({ "ok", "error" }, { "ok" }) :
         /\ Count(r, { "ok" })
         /\ IF r = "ok"
            THEN /\ output' = [ output EXCEPT !.height = chain_height ]
                 /\ exit_status' = "exit0"
            ELSE /\ exit_status' = "unhandled"
                 /\ UNCHANGED output
    /\ pc' = "exited"
    /\ UNCHANGED << env, mode, clock, tx_count, chain_height >>
    /\ UNCHANGED timedVars
    /\ UNCHANGED << cancelled, stressVars >>
    /\ UNCHANGED ledgerVars

TimedNext ==
    \/ Connect
    \/ DeployContract
    \/ Tick
    \/ BlockSend
    \/ BlockHeight
    \/ TxSubmit
    \/ TxWait
    \/ Sleep
    \/ TimedCancel
    \/ FinalHeight

(***************************************************************************)
(* Stress mode: stress-test.py                                             *)
(***************************************************************************)
StressLoopPcs == { "s_nonce", "s_dispatch", "s_gather", "s_join", "s_pause" }
Done == { "acked", "failed" }

\* Lines 41-45: start_time, tx_count = 0 and the baseline nonce query.  The
\* await is inside no try block: an exception leaves main and asyncio.run,
\* and line 67 catches KeyboardInterrupt only.
GetNonce ==
    /\ mode = "stress" /\ pc = "s_nonce"
    /\ \E r \in Results({ "ok", "error" }, { "ok" }), d \in RoundTrips :
         /\ Count(r, { "ok" })
         /\ clock' = clock + d
         /\ IF r = "ok"
            THEN /\ nonce' \in 0 .. MaxNonce
                 /\ pc' = "s_dispatch"
                 /\ UNCHANGED exit_status
            ELSE /\ pc' = "exited"
                 /\ exit_status' = "unhandled"
                 /\ UNCHANGED nonce
    /\ UNCHANGED << env, mode, tx_count, chain_height, output, cancelled,
                    tasks, assigned, batches, acked, failed, errors_logged,
                    reported, timingVars >>
    /\ UNCHANGED timedVars
    /\ UNCHANGED ledgerVars

\* Variant: the nonce taken from the loop index i of the batch.
NonceForIndex(base, count) == base + (count % batch_size)

\* Line 52: the nonce handed to send_tx.
NonceFor(base, count) == base + count

\* Lines 51-53: one iteration of the for loop: the coroutine send_tx(w3,
\* account, nonce + tx_count) is created and tx_count is incremented.
Dispatch ==
    /\ mode = "stress" /\ pc = "s_dispatch"
    /\ batches < MaxBatches
    /\ tasks' = Append(tasks, [ nonce |-> NonceFor(nonce, tx_count),
                                st |-> "created" ])
    /\ assigned' = Append(assigned, NonceFor(nonce, tx_count))
    /\ tx_count' = tx_count + 1
    /\ pc' = IF Len(tasks') = batch_size THEN "s_gather" ELSE "s_dispatch"
    /\ batch_start' = IF Len(tasks) = 0 THEN clock ELSE batch_start
    /\ UNCHANGED << env, mode, clock, chain_height, output, exit_status, faults,
                    cancelled, nonce, batches, acked, failed, errors_logged,
                    reported, start_time, tps, batch_time, busy >>
    /\ UNCHANGED timedVars
    /\ UNCHANGED ledgerVars

\* Line 55, entry of asyncio.gather: every coroutine becomes a task, and
\* each task runs lines 18-28 up to its await of send_raw_transaction.
Gather ==
    /\ mode = "stress" /\ pc = "s_gather"
    /\ tasks' = [ i \in 1 .. Len(tasks) |->
                    [ tasks[i] EXCEPT !.st = "inflight" ] ]
    /\ pc' = "s_join"
    /\ UNCHANGED << env, mode, clock, tx_count, chain_height, output, exit_status,
                    faults, cancelled, nonce, assigned, batches, acked,
                    failed, errors_logged, reported, timingVars >>
    /\ UNCHANGED timedVars
    /\ UNCHANGED ledgerVars

\* Variant: a failed send gives its slot of the counter back.
CountAfterSendRollback(r) == IF r = "ok" THEN tx_count ELSE tx_count - 1

\* Lines 27-32: tx_count after send_tx ended with r: send_tx has no access
\* to the counter of main.
CountAfterSend(r) == tx_count

\* Lines 27-32: send_raw_transaction of one task returns (the hash is
\* returned) or raises (the error is printed and None is returned).  The
\* tasks of a batch complete in any order.
Complete ==
    /\ mode = "stress" /\ pc = "s_join"
    /\ \E i \in 1 .. Len(tasks),
          r \in Results({ "ok", "error" }, { "ok" }), d \in Delays :
         /\ tasks[i].st = "inflight"
         /\ Count(r, { "ok" })
         /\ clock' = clock + d
         /\ tasks' = [ tasks EXCEPT ![i].st = IF r = "ok" THEN "acked"
                                                          ELSE "failed" ]
         /\ acked' = acked + (IF r = "ok" THEN 1 ELSE 0)
         /\ failed' = failed + (IF r = "ok" THEN 0 ELSE 1)
         /\ errors_logged' = errors_logged + (IF r = "ok" THEN 0 ELSE 1)
         /\ chain_height' = chain_height + (IF r = "ok" THEN 1 ELSE 0)
         /\ tx_count' = CountAfterSend(r)
    /\ UNCHANGED << env, mode, pc, output, exit_status, cancelled, nonce,
                    assigned, batches, reported, timingVars >>
    /\ UNCHANGED timedVars
    /\ UNCHANGED ledgerVars

\* Variant: the wait returns with the first task that is done.
JoinedAny(ts) == \E i \in 1 .. Len(ts) : ts[i].st \in Done

\* Line 55: asyncio.gather returns when every task of the batch is done.
Joined(ts) == \A i \in 1 .. Len(ts) : ts[i].st \in Done

\* Variant: the elapsed time measured from the start of the batch.
ElapsedOfBatch(t) == t - batch_start

\* Line 57: elapsed = time.time() - start_time.
Elapsed(t) == t - start_time

\* Line 58: current_tps = tx_count / elapsed, kept as a fraction.
Throughput(count, elapsed) == [ num |-> count, den |-> elapsed ]

\* Lines 55-59: gather returns; the progress line prints tx_count and the
\* average throughput since start_time.
Join ==
    /\ mode = "stress" /\ pc = "s_join"
    /\ Joined(tasks)
    /\ reported' = tx_count
    /\ tps' = Throughput(tx_count, Elapsed(clock))
    /\ batches' = batches + 1
    /\ batch_time' = clock - batch_start
    /\ busy' = busy + (clock - batch_start)
    /\ pc' = "s_pause"
    /\ UNCHANGED << env, mode, clock, tx_count, chain_height, output, exit_status,
                    faults, cancelled, nonce, tasks, assigned, acked, failed,
                    errors_logged, start_time, batch_start >>
    /\ UNCHANGED timedVars
    /\ UNCHANGED ledgerVars

\* Lines 62 and 47-50: asyncio.sleep(0.1), then the next batch starts with
\* tasks = [].
Pause ==
    /\ mode = "stress" /\ pc = "s_pause"
    /\ tasks' = << >>
    /\ clock' = clock + PauseTime
    /\ pc' = "s_dispatch"
    /\ UNCHANGED << env, mode, tx_count, chain_height, output, exit_status,
                    faults, cancelled, nonce, assigned, batches, acked,
                    failed, errors_logged, reported, timingVars >>
    /\ UNCHANGED timedVars
    /\ UNCHANGED ledgerVars

\* Variant: the tasks of the batch are left pending.
CancelTasksNone(ts) == ts

\* asyncio.run on KeyboardInterrupt: the main task is cancelled where it
\* stands and gather cancels the tasks of the batch that are not done.
CancelTasks(ts) ==
    [ i \in 1 .. Len(ts) |->
        IF ts[i].st \in Done THEN ts[i]
                             ELSE [ ts[i] EXCEPT !.st = "cancelled" ] ]

\* Variant: the handler prints nothing.
StressReportSilent == [ stopped |-> FALSE, count |-> -1, height |-> -1 ]

\* Lines 67-69: what the KeyboardInterrupt handler prints: "Test stopped."
\* (the literal spans lines 68-69), without count, elapsed time or height.
StressReport == [ stopped |-> TRUE, count |-> -1, height |-> -1 ]

\* Lines 65-69: a KeyboardInterrupt ends asyncio.run(main()) wherever the
\* coordinator stands; the handler prints the stop notice and the script
\* ends normally.
StressCancel ==
    /\ mode = "stress" /\ pc \in StressLoopPcs
    /\ tasks' = CancelTasks(tasks)
    /\ output' = StressReport
    /\ cancelled' = TRUE
    /\ exit_status' = "exit0"
    /\ pc' = "exited"
    /\ UNCHANGED << env, mode, clock, tx_count, chain_height, faults, nonce,
                    assigned, batches, acked, failed, errors_logged,
                    reported, timingVars >>
    /\ UNCHANGED timedVars
    /\ UNCHANGED ledgerVars

StressNext ==
    \/ GetNonce
    \/ Dispatch
    \/ Gather
    \/ Complete
    \/ Join
    \/ Pause
    \/ StressCancel

Next == TimedNext \/ StressNext

Spec == Init /\ [][Next]_vars

(***************************************************************************)
(* A healthy run of 40 s of the timed loop: simulate_transfers has just    *)
(* set its locals (line 112), no RPC call raises, and the calls either all *)
(* return at once or take up to MaxDelay.  The loop is followed up to the  *)
(* tick at 40 s.                                                           *)
(***************************************************************************)
RunTime == Seconds(40)

Init40 ==
    /\ \E ds \in { { 0 }, 0 .. MaxDelay } :
         env = [ horizon |-> RunTime, faults |-> 0, delays |-> ds ]
    /\ mode = "timed"
    /\ pc = "tick"
    /\ clock = 0
    /\ now = 0
    /\ last_block_time = 0
    /\ last_tx_time = 0
    /\ tx_count = 0
    /\ intent = NoIntent
    /\ outcome = "none"
    /\ block_outcome = "none"
    /\ attempts = 0
    /\ confirmed = 0
    /\ chain_height = 1
    /\ output = NoOutput
    /\ exit_status = "running"
    /\ faults = 0
    /\ cancelled = FALSE
    /\ nonce = 0
    /\ tasks = << >>
    /\ assigned = << >>
    /\ batches = 0
    /\ acked = 0
    /\ failed = 0
    /\ errors_logged = 0
    /\ reported = 0
    /\ start_time = 0
    /\ tps = [ num |-> 0, den |-> 1 ]
    /\ batch_start = 0
    /\ batch_time = 0
    /\ busy = 0
    /\ submitted = 0
    /\ dropped = 0
    /\ mined = 0

Next40 ==
    \/ Tick
    \/ BlockSend
    \/ BlockHeight
    \/ TxSubmit
    \/ TxWait
    \/ Sleep

Run40 == Init40 /\ [][Next40]_vars

\* The run is over: the clock has reached the horizon and the loop stands
\* behind its last tick.
RunOver == clock >= env.horizon /\ pc # "tick"

ValidIntent(i) ==
    /\ i.sender \in Pool /\ i.receiver \in Pool
    /\ i.sender # i.receiver
    /\ i.amount \in AmountMin .. AmountMax

BlockPcs == { "block_send", "block_height" }

\* C1: in timed mode the transfer due-time last_tx_time advances in a step
\* if and only if that step is a confirmation wait that obtained a receipt
\* within the timeout; every other step of the loop, in particular the end
\* of an attempt by a submission error, a confirmation error or a timeout,
\* leaves last_tx_time exactly as it was.
C1_TransferDueTimeIffConfirmed ==
    [][ mode = "timed" /\ pc \in TimedLoopPcs =>
          /\ (last_tx_time' > last_tx_time) <=>
                (pc = "tx_wait" /\ confirmed' = confirmed + 1)
          /\ (outcome' \in Failed \/ confirmed' = confirmed) =>
                last_tx_time' = last_tx_time ]_vars

\* Witness of C1: a first attempt was confirmed and moved the due-time, a
\* later attempt failed and left the due-time where the first one put it.
C1_Witness ==
    /\ mode = "timed" /\ pc = "sleep"
    /\ confirmed >= 1 /\ outcome \in Failed
    /\ last_tx_time >= TxPeriod /\ last_tx_time < now

C4_RetryOnNextTick ==
    [][ mode = "timed" /\ ~cancelled' =>
          /\ (outcome' \in Failed /\ outcome \notin Failed) =>
                (last_tx_time' = last_tx_time /\ pc' = "sleep")
          /\ (outcome \in Failed /\ pc = "sleep") =>
                (pc' = "tick" /\ clock' = clock + TickSleep)
          /\ (outcome \in Failed /\ pc = "tick") => now' = clock
          /\ (outcome \in Failed /\ pc \in { "tick" } \cup BlockPcs
                /\ pc' \notin BlockPcs) =>
                (pc' = "tx_submit" /\ attempts' = attempts + 1
                   /\ outcome' = "pending") ]_vars

\* Witness of C4: the second attempt is being submitted one tick after the
\* first one timed out.
C4_Witness ==
    /\ mode = "timed" /\ pc = "tx_submit"
    /\ attempts = 2 /\ confirmed = 0
    /\ now >= last_tx_time + TxPeriod + ConfirmTimeout + TickSleep

\* C5: in timed mode a cancellation at any position of the loop ends with
\* the final report printed (stop notice, transfer count equal to the number
\* of confirmed transfers, height equal to the chain height) and a normal
\* exit.
C5_CancelAlwaysReports ==
    (mode = "timed" /\ cancelled /\ pc = "exited") =>
      /\ output.stopped
      /\ output.count = confirmed
      /\ output.height = chain_height
      /\ exit_status = "exit0"

\* C6: in timed mode, when the final height query of a cancelled session
\* fails, the report still carries the transfer count, the height is left
\* out, and the script ends without an unhandled error.
C6_FinalHeightFailureNonFatal ==
    (mode = "timed" /\ cancelled /\ pc = "exited" /\ output.height = -1) =>
      /\ output.stopped
      /\ output.count = tx_count
      /\ exit_status # "unhandled"

\* C7: in both modes a session ends only by a cancellation or by one of the
\* two fatal startup cases of the timed mode (connection, deployment); no
\* other failing RPC call ends it.
C7_OnlyStartupFailuresAreFatal ==
    pc = "exited" =>
      \/ cancelled
      \/ mode = "timed" /\ exit_status = "exit1" /\ attempts = 0

\* C13: every intent that timed mode submits, on a first attempt or on a
\* retry, has sender and receiver in the account pool, sender # receiver,
\* and an integer amount in 1..1000.
C13_IntentsValid ==
    mode = "timed" =>
      /\ pc \in { "tx_submit", "tx_wait" } => intent # NoIntent
      /\ intent # NoIntent =>
           /\ { intent.sender, intent.receiver } \subseteq Pool
           /\ intent.sender # intent.receiver
           /\ intent.amount \in Int
           /\ AmountMin <= intent.amount /\ intent.amount <= AmountMax

\* Witness of C13: the intent of a retry, with the largest amount, is
\* waiting for its receipt.
C13_Witness ==
    /\ mode = "timed" /\ pc = "tx_wait"
    /\ attempts = 2 /\ confirmed = 0
    /\ intent = [ sender |-> "user3", receiver |-> "deployer",
                  amount |-> AmountMax ]

\* C14: when the connection check fails, or the deployment send fails, or
\* its receipt does not arrive in time, the script exits at once with
\* status 1; nothing follows the exit, and no block-forcing send and no
\* transfer was ever issued.
C14_StartupFailureIsFatal ==
    [][ mode = "timed" =>
          /\ (pc \in { "connect", "deploy" } /\ faults' > faults) =>
                (pc' = "exited" /\ exit_status' = "exit1")
          /\ exit_status' = "exit1" =>
                /\ pc' = "exited" /\ ~cancelled'
                /\ attempts' = 0 /\ tx_count' = 0
                /\ block_outcome' = "none" /\ outcome' = "none"
                /\ chain_height' = 0 /\ output' = NoOutput
          /\ pc # "exited" ]_vars

\* Witness of C14: the deployment receipt did not arrive within 30 s and
\* the script has exited with status 1.
C14_Witness ==
    /\ mode = "timed" /\ pc = "exited" /\ exit_status = "exit1"
    /\ clock >= DeployTimeout /\ faults = 1

\* C18: in timed mode no step moves last_block_time or last_tx_time
\* backwards.
C18_DueTimesMonotonic ==
    [][ mode = "timed" =>
          /\ last_block_time' >= last_block_time
          /\ last_tx_time' >= last_tx_time ]_vars

\* Witness of C18: both due-times have advanced, the block due-time past
\* the transfer due-time, and a later transfer attempt has failed.
C18_Witness ==
    /\ mode = "timed" /\ pc = "sleep"
    /\ last_tx_time >= TxPeriod /\ last_block_time > last_tx_time
    /\ outcome \in Failed

\* C19: the two obligations of the timed loop are independent.  A step of
\* the block branch changes neither last_tx_time nor the counter; when the
\* block branch ends, by success or by failure, in a tick in which the
\* transfer is due, the transfer branch is entered; and a step of the
\* transfer branch does not change last_block_time.
C19_ObligationsIndependent ==
    [][ (mode = "timed" /\ ~cancelled') =>
          /\ pc \in BlockPcs =>
                /\ last_tx_time' = last_tx_time
                /\ tx_count' = tx_count /\ confirmed' = confirmed
                /\ (pc' \notin BlockPcs /\ TransferDue(now)) =>
                      (pc' = "tx_submit" /\ attempts' = attempts + 1)
                /\ (pc' \notin BlockPcs /\ ~TransferDue(now)) =>
                      (pc' = "sleep" /\ attempts' = attempts)
          /\ pc \in { "tx_submit", "tx_wait" } =>
                /\ last_block_time' = last_block_time
                /\ block_outcome' = block_outcome ]_vars

\* Witness of C19: a transfer is being submitted in a tick whose block
\* attempt failed.
C19_Witness ==
    /\ mode = "timed" /\ pc = "tx_submit"
    /\ block_outcome = "failed" /\ BlockDue(now)
    /\ TransferDue(now) /\ outcome = "pending"

\* C20: in timed mode a receipt without logs is a confirmation like a
\* receipt with logs: the warning is recorded, the counter grows by 1 and
\* last_tx_time becomes the time of the tick.
C20_ReceiptWithoutLogsConfirms ==
    [][ (mode = "timed" /\ pc = "tx_wait" /\ pc' = "sleep") =>
          /\ outcome' \in { "confirmed", "confirmed_no_logs" } \cup Failed
          /\ outcome' \in { "confirmed", "confirmed_no_logs" } =>
                /\ tx_count' = tx_count + 1
                /\ last_tx_time' = now /\ last_tx_time' > last_tx_time
                /\ faults' = faults ]_vars

\* Witness of C20: the second transfer was confirmed by a receipt without
\* logs and counted.
C20_Witness ==
    /\ mode = "timed" /\ pc = "sleep"
    /\ outcome = "confirmed_no_logs"
    /\ tx_count = 2 /\ last_tx_time = now

\* Lines 150-157: the transfers the loop is waiting for: those submitted
\* whose wait has neither returned a receipt nor ended in the except branch.
Awaited == submitted - mined - dropped

\* C21: timed mode has one control thread.  The loop waits for a transfer
\* exactly while it is inside wait_for_transaction_receipt, so for at most
\* one; while a transfer attempt is pending no other attempt is started,
\* no transaction of another attempt is submitted and the block branch is
\* neither entered nor served; and the wait is left only with a result:
\* a receipt, an error or the timeout.
C21_SingleControlThread ==
    [][ (mode = "timed" /\ ~cancelled') =>
          /\ Awaited = (IF pc = "tx_wait" THEN 1 ELSE 0)
          /\ Awaited' = (IF pc' = "tx_wait" THEN 1 ELSE 0)
          /\ outcome = "pending" =>
                /\ pc \in { "tx_submit", "tx_wait" }
                /\ pc' \in { "tx_submit", "tx_wait", "sleep" }
                /\ attempts' = attempts
                /\ block_outcome' = block_outcome
                /\ last_block_time' = last_block_time
                /\ pc = "tx_wait" => submitted' = submitted
                /\ (pc = "tx_wait" /\ pc' # "tx_wait") =>
                      /\ pc' = "sleep"
                      /\ outcome' \in { "confirmed", "confirmed_no_logs",
                                        "confirm_error", "timeout" }
          /\ pc' \in BlockPcs => outcome' # "pending" ]_vars

\* Witness of C21: the block became due while the loop was waiting for a
\* receipt, the wait ended by the timeout, and the block has not been
\* attempted.
C21_Witness ==
    /\ mode = "timed" /\ pc = "sleep"
    /\ outcome = "timeout"
    /\ ~BlockDue(now) /\ BlockDue(clock)
    /\ Awaited = 0 /\ dropped = 1

\* C22: in timed mode a retry after a failed attempt samples a new intent
\* and submits a new transaction; a transfer whose wait ended without a
\* receipt is not waited for again, so its later mining changes neither
\* the counter nor last_tx_time; and the counter is at most the number of
\* transfers submitted and at most the number of transfers mined.
C22_RetrySubmitsAnew ==
    [][ mode = "timed" =>
          /\ tx_count' <= submitted' /\ tx_count' <= mined'
          /\ (outcome \in Failed /\ pc # "tx_submit" /\ pc' = "tx_submit") =>
                /\ attempts' = attempts + 1
                /\ intent = NoIntent /\ ValidIntent(intent')
                /\ outcome' = "pending"
          /\ (pc = "tx_submit" /\ pc' = "tx_wait") =>
                submitted' = submitted + 1
          /\ dropped' > dropped =>
                /\ outcome' \in { "confirm_error", "timeout" }
                /\ tx_count' = tx_count /\ last_tx_time' = last_tx_time
          /\ pc' = "tx_wait" => pc = "tx_submit"
          /\ dropped' < dropped =>
                /\ mined' - mined = dropped - dropped'
                /\ tx_count' = tx_count /\ last_tx_time' = last_tx_time
                /\ submitted' = submitted /\ attempts' = attempts
                /\ outcome' = outcome /\ intent' = intent ]_vars

\* Witness of C22: the first transfer was mined after its wait had ended
\* without a receipt, the retry was confirmed, and one transfer is counted.
C22_Witness ==
    /\ mode = "timed" /\ pc = "sleep"
    /\ outcome \in { "confirmed", "confirmed_no_logs" }
    /\ attempts = 2 /\ submitted = 2 /\ mined = 2 /\ dropped = 0
    /\ tx_count = 1

(***************************************************************************)
(* Properties of the stress mode.                                          *)
(***************************************************************************)

\* C3: in stress mode the nonces handed to send_tx, in dispatch order over
\* all batches, are nonce, nonce+1, nonce+2, ... without repeat or gap,
\* whatever the outcomes and the completion order; the batch number k that
\* is gathered holds exactly nonce + k*batch_size .. nonce + (k+1)*batch_size - 1.
C3_NoncesContiguous ==
    mode = "stress" =>
      /\ \A k \in 1 .. Len(assigned) : assigned[k] = nonce + (k - 1)
      /\ pc \in { "s_gather", "s_join" } =>
           /\ Len(tasks) = batch_size
           /\ \A j \in 1 .. batch_size :
                tasks[j].nonce = nonce + batches * batch_size + (j - 1)

\* Witness of C3: the second batch is in flight, out of order, after a
\* failed submission.
C3_Witness ==
    /\ mode = "stress" /\ pc = "s_join" /\ batches = 1
    /\ failed >= 1
    /\ tasks[1].st = "inflight" /\ tasks[batch_size].st = "acked"
    /\ tasks[batch_size].nonce = nonce + 2 * batch_size - 1

C9_CancelAtBatchBoundary ==
    (mode = "stress" /\ cancelled /\ pc = "exited") =>
      /\ \A i \in 1 .. Len(tasks) : tasks[i].st \in Done
      /\ tx_count % batch_size = 0

Unfinished(ts) == { i \in 1 .. Len(ts) : ts[i].st \notin Done }

\* C9 amended: in stress mode a cancellation takes effect where the
\* coordinator stands, also in the middle of a batch: the session has
\* exited, the sends of the interrupted batch that were not yet done are
\* cancelled (never acknowledged, never failed), and only the batches whose
\* join had returned are completely dispatched.
C9_CancelAbandonsBatch ==
    (mode = "stress" /\ cancelled) =>
      /\ pc = "exited"
      /\ \A i \in Unfinished(tasks) : tasks[i].st = "cancelled"
      /\ acked + failed + Cardinality(Unfinished(tasks)) = tx_count
      /\ acked + failed >= batches * batch_size

\* Witness of C9: the session was cancelled while a batch was joined on,
\* with one item done and another one cancelled in flight.
C9_Witness ==
    /\ mode = "stress" /\ cancelled /\ pc = "exited"
    /\ batches >= 1
    /\ \E i, j \in 1 .. Len(tasks) :
         tasks[i].st = "cancelled" /\ tasks[j].st \in Done

C11_ThroughputBelowBatchRate ==
    (mode = "stress" /\ pc = "s_pause") =>
      tps.num * batch_time <= batch_size * tps.den

\* C11 amended: the throughput of a progress line is the average over the
\* session, the sends dispatched so far divided by the time since
\* start_time (which is positive); it is at most the sends dispatched so
\* far divided by the sum of the dispatch times of the batches so far, and
\* for the first batch at most batch_size divided by its dispatch time.
C11_ThroughputIsSessionAverage ==
    (mode = "stress" /\ pc = "s_pause") =>
      /\ tps.num = batches * batch_size
      /\ tps.den > 0
      /\ tps.num * busy <= tx_count * tps.den
      /\ batches = 1 => tps.num * batch_time <= batch_size * tps.den

\* Witness of C11: the second batch took longer than everything before it,
\* so the average reported exceeds batch_size over the time of that batch.
C11_Witness ==
    /\ mode = "stress" /\ pc = "s_pause" /\ batches = 2
    /\ tps.num = 2 * batch_size /\ tps.den = clock - start_time
    /\ tps.num * batch_time > batch_size * tps.den

\* C15: the session counter tx_count never decreases.  In timed mode it
\* grows by exactly 1 in a confirmation wait that obtained a receipt and
\* in no other step (failed and timed-out attempts and block-forcing sends
\* leave it alone), so it equals the number of confirmed transfers.  In
\* stress mode it grows by exactly 1 with each send dispatched, so it
\* equals batches * batch_size when a batch has been joined.
C15_CounterCountsConfirmedOrDispatched ==
    [][ /\ tx_count' >= tx_count
        /\ mode = "timed" =>
             /\ tx_count' - tx_count = confirmed' - confirmed
             /\ tx_count' # tx_count =>
                  (pc = "tx_wait" /\ tx_count' = tx_count + 1
                     /\ outcome' \in { "confirmed", "confirmed_no_logs" })
             /\ tx_count' = confirmed'
        /\ mode = "stress" =>
             /\ tx_count' - tx_count = Len(assigned') - Len(assigned)
             /\ tx_count' - tx_count \in { 0, 1 }
             /\ pc' = "s_pause" => tx_count' = batches' * batch_size ]_vars

\* Witness of C15: in timed mode one transfer was confirmed and counted, a
\* later attempt timed out or failed, and blocks were forced meanwhile.
C15_Witness ==
    /\ mode = "timed" /\ pc = "sleep"
    /\ tx_count = 1 /\ attempts >= 2 /\ outcome \in Failed
    /\ block_outcome = "mined"

\* C16: in stress mode a send is dispatched only when every send of the
\* batches before its own is acknowledged or failed, while the sends of
\* one batch complete in any order.
C16_BatchesSequential ==
    [][ (mode = "stress" /\ Len(assigned') > Len(assigned)) =>
          /\ acked + failed = tx_count - Len(tasks)
          /\ \A i \in 1 .. Len(tasks) : tasks[i].st = "created"
          /\ tx_count - Len(tasks) = batches * batch_size ]_vars

\* Witness of C16: in the second batch the last send is done before the
\* first one.
C16_Witness ==
    /\ mode = "stress" /\ pc = "s_join" /\ batches = 1
    /\ acked + failed = batch_size + 1
    /\ tasks[1].st = "inflight" /\ tasks[batch_size].st \in Done

\* C17: in stress mode, while a submission of the batch is in flight, no
\* step changes the baseline nonce, the dispatch counter tx_count or what
\* the session has reported (count, throughput, start time), whatever the
\* order in which the submissions end.
C17_CountersFrozenDuringWave ==
    [][ (mode = "stress" /\ \E i \in 1 .. Len(tasks) :
                               tasks[i].st = "inflight") =>
          /\ tx_count' = tx_count /\ nonce' = nonce
          /\ assigned' = assigned
          /\ reported' = reported /\ tps' = tps
          /\ start_time' = start_time /\ batches' = batches ]_vars

\* Witness of C17: a batch with a failed, an acknowledged and a pending
\* submission.
C17_Witness ==
    /\ mode = "stress" /\ pc = "s_join"
    /\ \E i, j, k \in 1 .. Len(tasks) :
         /\ tasks[i].st = "failed" /\ tasks[j].st = "acked"
         /\ tasks[k].st = "inflight" /\ k < i
    /\ tx_count = (batches + 1) * batch_size
====
